---- MODULE Spec2Model ----
\* Model of the business_service client (src/services/business_service/mod.rs):
\* the sequential page walk (get_locations / get_locations_details over
\* resource_request) and the concurrent fan-out (admins over admin / request).
EXTENDS Integers, Sequences, FiniteSets, TLC

VARIABLES
    service,          \* BusinessService { access_token, account_id }
    walk_pc,          \* position of the page walk
    walk_op,          \* which page walk runs, with its arguments
    locations,        \* `locations.locations`, the accumulator of the walk
    next_page_token,  \* Option<Value>, the local of the walk
    walk_url,         \* URL of the request the walk has in flight
    requests,         \* history: URLs of the page requests sent, in order
    served,           \* history: response bodies received, in order
    walk_ret,         \* what the walk returned to its caller
    walk_panic,       \* message of the panic that unwound the walk, or ""
    fan_pc,           \* position of the fan-out (admins)
    fan_locations,    \* the `locations` argument of admins
    futures,          \* the FuturesUnordered: one admin future per location
    yielded,          \* what futures.next() resolved with, not yet matched
    results,          \* the `results` vector of admins
    order,            \* history: indices of the futures matched Ok, in order
    completions,      \* history: the futures' outputs, in completion order
    fan_requests,     \* history: the requests the futures sent
    fan_ret,          \* what admins returned to its caller
    fan_panic,        \* message of the panic that unwound admins, or ""
    call_pc,          \* position of the single-request operation
    call_op,          \* which one runs: accounts or update_location
    call_url,         \* URL of the request it sent
    call_served,      \* history: the response body it received, if any
    call_ret,         \* what it returned to its caller
    call_panic        \* message of the panic that unwound it, or ""

walk_vars == <<walk_pc, walk_op, locations, next_page_token, walk_url,
               requests, served, walk_ret, walk_panic>>

fan_vars == <<fan_pc, fan_locations, futures, yielded, results, order,
              completions, fan_requests, fan_ret, fan_panic>>

call_vars == <<call_pc, call_op, call_url, call_served, call_ret, call_panic>>

vars == <<service, walk_vars, fan_vars, call_vars>>

----
\* Bounds of the model.

\* Longest token chain a server answers with.
MaxPages == 3

\* Longest list of locations admins is called with.
MaxLocations == 3

\* Longest accounts array a server answers with.
MaxAccounts == 2

----
\* Option<T> and serde_json::Value.

None == <<>>

Some(v) == <<v>>

\* Option::is_none
IsNone(opt) == Len(opt) = 0

\* Option::unwrap, defined where the option is Some
Unwrap(opt) == opt[1]

\* serde_json::Value, the variants a response body can hold in the two fields
\* the walk reads: t is the variant, s a string's text, a an array's elements.
Null == [t |-> "null", s |-> "", a |-> <<>>]

Str(x) == [t |-> "str", s |-> x, a |-> <<>>]

Num(x) == [t |-> "num", s |-> x, a |-> <<>>]

Arr(xs) == [t |-> "arr", s |-> "", a |-> xs]

Obj(x) == [t |-> "obj", s |-> x, a |-> <<>>]

\* Value::as_str: Some for a string, None for every other variant
AsStr(v) == IF v.t = "str" THEN Some(v.s) ELSE None

\* Value::as_array
AsArray(v) == IF v.t = "arr" THEN Some(v.a) ELSE None

\* A response body: json is whether the bytes parse as JSON; the two fields
\* are what Value::get finds under each key (None when the key is absent).
Body(json, locs, token) ==
    [json |-> json, locations |-> locs, nextPageToken |-> token]

\* Value::get(key) on the parsed body
Get(resp, key) ==
    IF key = "locations" THEN resp.locations ELSE resp.nextPageToken

----
\* The domain model (locations.rs) at its deserialisation boundary.

LocationUniverse ==
    { [name |-> "a", title |-> "A", store_code |-> "S1"],
      [name |-> "b", title |-> "B", store_code |-> "S2"],
      [name |-> "c", title |-> "C", store_code |-> "S3"] }

\* serde_json::from_value::<Location>: a JSON object naming a location
\* deserialises to it, any other value does not.
FromValue(v) ==
    IF v.t = "obj" /\ \E l \in LocationUniverse : l.name = v.s
    THEN Some(CHOOSE l \in LocationUniverse : l.name = v.s)
    ELSE None

\* The items arrays a server page may carry.
PageItems ==
    { <<>>, <<Obj("a"), Obj("b")>>, <<Obj("c")>>, <<Num("7")>> }

\* What a body may hold under "locations": nothing, a non-array, an array.
LocationsFields ==
    {None, Some(Str("oops"))} \cup { Some(Arr(xs)) : xs \in PageItems }

\* What a body may hold under "nextPageToken".
TokenFields == {None, Some(Null), Some(Str("t1")), Some(Str("t2"))}

Bodies ==
    { Body(TRUE, l, t) : l \in LocationsFields, t \in TokenFields }
        \cup { Body(FALSE, None, None) }

----
\* The service and its transport.

\* Credential strings as byte sequences: "tok" and "t\nk".
AccessTokens == { <<116, 111, 107>>, <<116, 10, 107>> }

AccountIds == {"-", "123"}

ReadMasks == { <<"name">>, <<"storeCode", "title">> }

\* "Bearer " of format!("Bearer {}", access_token)
Bearer == <<66, 101, 97, 114, 101, 114, 32>>

\* HeaderValue::from_str: Ok iff every byte is a tab or a visible ASCII byte
HeaderValueFromStr(bytes) ==
    \A i \in 1..Len(bytes) :
        bytes[i] = 9 \/ (bytes[i] >= 32 /\ bytes[i] # 127)

\* BusinessService::new
New(access_token) == [access_token |-> access_token, account_id |-> None]

\* Vec<String>::join(",")
RECURSIVE Join(_)
Join(mask) ==
    IF Len(mask) = 0 THEN <<>>
    ELSE IF Len(mask) = 1 THEN mask
    ELSE <<mask[1], ",">> \o Join(Tail(mask))

\* EndPoint::build: the URL of an endpoint, as its segments
EndPointBuild(endpoint) ==
    <<endpoint.kind, endpoint.id>> \o endpoint.mask

LocationsEndpoint(account_id) ==
    [kind |-> "locations", id |-> account_id, mask |-> <<>>]

LocationsDetailsEndpoint(account_id, read_mask_joined) ==
    [kind |-> "locations_details", id |-> account_id, mask |-> read_mask_joined]

PushPageTokenDropped(url, token) == url

\* url.push_str(format!("&pageToken={}", token))
PushPageToken(url, token) == url \o <<"&pageToken=", token>>

\* The outcome of a call before its first suspension point.
Sent(url) == [kind |-> "sent", url |-> url, msg |-> ""]

Panic(msg) == [kind |-> "panic", url |-> <<>>, msg |-> msg]

Failed(msg) == [kind |-> "Err", url |-> <<>>, msg |-> msg]

\* resource_request up to its send().await: built is whether EndPoint::build
\* gave a URL, client_ok whether reqwest::Client::builder().build() did.
ResourceRequest(svc, endpoint, token, built, client_ok) ==
    IF ~built THEN Panic("could not build accounts url")
    ELSE IF ~IsNone(token) /\ IsNone(AsStr(Unwrap(token)))
    THEN Panic("unwrap on None: token.as_str()")
    ELSE IF ~client_ok THEN Failed("client build")
    ELSE IF ~HeaderValueFromStr(Bearer \o svc.access_token)
    THEN Panic("unwrap on Err: HeaderValue::from_str")
    ELSE Sent(IF IsNone(token) THEN EndPointBuild(endpoint)
              ELSE PushPageToken(EndPointBuild(endpoint),
                                 Unwrap(AsStr(Unwrap(token)))))

----
\* What an operation hands back to its caller.
NoRet == [kind |-> "none", value |-> <<>>, error |-> ""]

Ok(v) == [kind |-> "Ok", value |-> v, error |-> ""]

Err(e) == [kind |-> "Err", value |-> <<>>, error |-> e]

ExtendReplaced(acc, pages) == pages

ExtendSkipped(acc, pages) == acc

\* Vec::extend
Extend(acc, pages) == acc \o pages

\* val_pages.iter().map(|v| from_value(v).unwrap()).collect()
Pages(val_pages) == [i \in 1..Len(val_pages) |-> Unwrap(FromValue(val_pages[i]))]

WalkBreaksOnSome(token) == ~IsNone(token)

\* if next_page_token.is_none() { break; }
WalkBreaks(token) == IsNone(token)

DeserialisesNonEmpty(resp) ==
    IF IsNone(Get(resp, "locations")) THEN FALSE
    ELSE IF IsNone(AsArray(Unwrap(Get(resp, "locations")))) THEN FALSE
    ELSE LET val_pages == Unwrap(AsArray(Unwrap(Get(resp, "locations"))))
         IN  /\ Len(val_pages) > 0
             /\ \A i \in 1..Len(val_pages) : ~IsNone(FromValue(val_pages[i]))

\* Whether lines 172-176 get through their unwraps: the body has the key
\* "locations", its value is an array, and every element is a Location.
Deserialises(resp) ==
    IF IsNone(Get(resp, "locations")) THEN FALSE
    ELSE IF IsNone(AsArray(Unwrap(Get(resp, "locations")))) THEN FALSE
    ELSE LET val_pages == Unwrap(AsArray(Unwrap(Get(resp, "locations"))))
         IN  \A i \in 1..Len(val_pages) : ~IsNone(FromValue(val_pages[i]))

\* The endpoint of the running walk.
WalkEndpoint ==
    IF walk_op.name = "get_locations"
    THEN LocationsEndpoint(walk_op.account_id)
    ELSE LocationsDetailsEndpoint(walk_op.account_id, walk_op.read_mask_joined)

----
Init ==
    /\ service \in { New(t) : t \in AccessTokens }
    /\ walk_pc = "idle"
    /\ walk_op = [name |-> "none", account_id |-> "", read_mask_joined |-> <<>>]
    /\ locations = <<>>
    /\ next_page_token = None
    /\ walk_url = <<>>
    /\ requests = <<>>
    /\ served = <<>>
    /\ walk_ret = NoRet
    /\ walk_panic = ""
    /\ fan_pc = "idle"
    /\ fan_locations = <<>>
    /\ futures = <<>>
    /\ yielded = None
    /\ results = <<>>
    /\ order = <<>>
    /\ completions = <<>>
    /\ fan_requests = <<>>
    /\ fan_ret = NoRet
    /\ fan_panic = ""
    /\ call_pc = "idle"
    /\ call_op = "none"
    /\ call_url = <<>>
    /\ call_served = None
    /\ call_ret = NoRet
    /\ call_panic = ""

\* get_locations, up to its loop
GetLocations(account_id) ==
    /\ walk_pc = "idle"
    /\ walk_pc' = "loop"
    /\ walk_op' = [name |-> "get_locations", account_id |-> account_id,
                   read_mask_joined |-> <<>>]
    /\ locations' = <<>>
    /\ next_page_token' = None
    /\ UNCHANGED <<service, walk_url, requests, served, walk_ret, walk_panic>>
    /\ UNCHANGED <<fan_vars, call_vars>>

\* get_locations_details, up to its loop
GetLocationsDetails(account_id, read_mask) ==
    /\ walk_pc = "idle"
    /\ walk_pc' = "loop"
    /\ walk_op' = [name |-> "get_locations_details", account_id |-> account_id,
                   read_mask_joined |-> Join(read_mask)]
    /\ locations' = <<>>
    /\ next_page_token' = None
    /\ UNCHANGED <<service, walk_url, requests, served, walk_ret, walk_panic>>
    /\ UNCHANGED <<fan_vars, call_vars>>

\* Top of the loop: resource_request(endpoint, next_page_token.clone()) up to
\* its send().await, and the `?` on its early error.
WalkRequest(built, client_ok) ==
    /\ walk_pc = "loop"
    /\ LET r == ResourceRequest(service, WalkEndpoint, next_page_token,
                                built, client_ok)
       IN  /\ walk_pc' = CASE r.kind = "sent" -> "sending"
                            [] r.kind = "Err" -> "returned"
                            [] OTHER -> "panicked"
           /\ walk_ret' = IF r.kind = "Err" THEN Err(r.msg) ELSE walk_ret
           /\ walk_panic' = IF r.kind = "panic" THEN r.msg ELSE walk_panic
           /\ walk_url' = r.url
           /\ requests' = IF r.kind = "sent" THEN Append(requests, r.url)
                          ELSE requests
    /\ UNCHANGED <<service, walk_op, locations, next_page_token, served>>
    /\ UNCHANGED <<fan_vars, call_vars>>

\* send().await.expect("Error with request") of resource_request: the
\* transport answers, or fails and the expect panics.
WalkSend(answered) ==
    /\ walk_pc = "sending"
    /\ walk_pc' = IF answered THEN "reading" ELSE "panicked"
    /\ walk_panic' = IF answered THEN walk_panic ELSE "Error with request"
    /\ UNCHANGED <<service, walk_op, locations, next_page_token, walk_url,
                   requests, served, walk_ret>>
    /\ UNCHANGED <<fan_vars, call_vars>>

\* A server's token chain is finite: its MaxPages-th page carries no token
\* that requests a further page.
ChainAllows(body) ==
    IF Len(served) + 1 < MaxPages \/ IsNone(body.nextPageToken) THEN TRUE
    ELSE IsNone(AsStr(Unwrap(body.nextPageToken)))

\* response.json().await? and the rest of the loop body, to the break or the
\* next iteration.
WalkBody(body) ==
    /\ walk_pc = "reading"
    /\ ChainAllows(body)
    /\ served' = Append(served, body)
    /\ IF ~body.json
       THEN /\ walk_pc' = "returned"
            /\ walk_ret' = Err("json")
            /\ UNCHANGED <<locations, next_page_token, walk_panic>>
       ELSE IF ~Deserialises(body)
       THEN /\ walk_pc' = "panicked"
            /\ walk_panic' = "unwrap on None: locations"
            /\ UNCHANGED <<locations, next_page_token, walk_ret>>
       ELSE LET val_pages == Unwrap(AsArray(Unwrap(Get(body, "locations"))))
                extended == Extend(locations, Pages(val_pages))
                token == Get(body, "nextPageToken")
            IN  /\ locations' = extended
                /\ next_page_token' = token
                /\ UNCHANGED walk_panic
                /\ IF WalkBreaks(token)
                   THEN /\ walk_pc' = "returned"
                        /\ walk_ret' = Ok(extended)
                   ELSE /\ walk_pc' = "loop"
                        /\ UNCHANGED walk_ret
    /\ UNCHANGED <<service, walk_op, walk_url, requests>>
    /\ UNCHANGED <<fan_vars, call_vars>>

NextWalk ==
    \/ \E a \in AccountIds : GetLocations(a)
    \/ \E a \in AccountIds, m \in ReadMasks : GetLocationsDetails(a, m)
    \/ \E built \in BOOLEAN, client_ok \in BOOLEAN : WalkRequest(built, client_ok)
    \/ \E answered \in BOOLEAN : WalkSend(answered)
    \/ \E body \in Bodies : WalkBody(body)

SpecWalk == Init /\ [][NextWalk]_vars

----
\* The fan-out: admins over admin over request.

AdminEndpoint(name) == [kind |-> "admins", id |-> name, mask |-> <<>>]

\* request up to its send().await: as resource_request, without a token.
Request(svc, endpoint, built, client_ok) ==
    IF ~built THEN Panic("could not build accounts url")
    ELSE IF ~client_ok THEN Failed("client build")
    ELSE IF ~HeaderValueFromStr(Bearer \o svc.access_token)
    THEN Panic("unwrap on Err: HeaderValue::from_str")
    ELSE Sent(EndPointBuild(endpoint))

\* A body of the admins endpoint: json is whether the bytes parse as JSON,
\* admins what the object holds under "admins".
AdminsBody(json, admins) == [json |-> json, admins |-> admins]

AdminBodies ==
    { AdminsBody(FALSE, None), AdminsBody(TRUE, None),
      AdminsBody(TRUE, Some(Arr(<<>>))),
      AdminsBody(TRUE, Some(Arr(<<Obj("u1"), Obj("u2")>>))) }

\* response.json::<Admins>(): Some(Admins) when the body is an object whose
\* "admins" is an array of Admin objects, None (an Err) otherwise.
AdminsFromJson(body) ==
    IF ~body.json \/ IsNone(body.admins) THEN None
    ELSE IF IsNone(AsArray(Unwrap(body.admins))) THEN None
    ELSE LET arr == Unwrap(AsArray(Unwrap(body.admins)))
         IN  IF \A i \in 1..Len(arr) : arr[i].t = "obj"
             THEN Some([admins |-> [i \in 1..Len(arr) |-> arr[i].s]])
             ELSE None

PageAdminsFirstLocation(location, resp) ==
    [page_name |-> "a", page_title |-> "A", store_code |-> "S1",
     admin_count |-> Len(resp.admins), admins |-> resp.admins]

\* The PageAdmins that admin builds from its location and the parsed body.
PageAdmins(location, resp) ==
    [page_name |-> location.name, page_title |-> location.title,
     store_code |-> location.store_code,
     admin_count |-> Len(resp.admins), admins |-> resp.admins]

\* The lists of locations admins is called with: the prefixes, up to
\* MaxLocations long, of a list of distinct locations and of a list that
\* repeats its first location.
LocationAt(i) ==
    CHOOSE l \in LocationUniverse :
        l.name = <<"a", "b", "c">>[((i - 1) % 3) + 1]

LocationLists ==
    { [i \in 1..k |-> LocationAt(i)] : k \in 0..MaxLocations }
        \cup { [i \in 1..k |-> LocationAt(IF i = 1 THEN 1 ELSE i - 1)] :
                 k \in 2..MaxLocations }

\* One future of the FuturesUnordered: st is the await it is suspended at
\* ("pushed" before its first poll, "done" once it has completed), self_clone
\* the clone of the service it owns, out how it completed, dropped whether it
\* was dropped before completing.
Future(svc) ==
    [st |-> "pushed", self_clone |-> svc, out |-> "none", dropped |-> FALSE]

CloneDefault(svc) == [access_token |-> <<>>, account_id |-> None]

\* self.clone(), of the derived Clone: a copy with the same fields
Clone(svc) == [access_token |-> svc.access_token, account_id |-> svc.account_id]

PollableInOrder(fs, i) ==
    ~fs[i].dropped /\ \A j \in 1..(i - 1) : fs[j].st = "done"

\* futures.next() polls every future the FuturesUnordered still holds,
\* whatever the state of the others.
Pollable(fs, i) == ~fs[i].dropped

PushFront(vec, admin) == <<admin>> \o vec

\* results.push(admin)
Push(vec, admin) == Append(vec, admin)

\* The output of future i, as the history keeps it: body is the body the
\* future parsed, None when it completed before any response.
Completion(i, body, res) == [idx |-> i, body |-> body, res |-> res]

DropNone(fs) == fs

\* Dropping the FuturesUnordered drops every future that has not completed.
DropAll(fs) ==
    [i \in 1..Len(fs) |->
        IF fs[i].st = "done" THEN fs[i] ELSE [fs[i] EXCEPT !.dropped = TRUE]]

AnyDone(fs) == \E i \in 1..Len(fs) : fs[i].st = "done"

AllDoneNonEmpty(fs) == Len(fs) > 0 /\ \A i \in 1..Len(fs) : fs[i].st = "done"

\* futures.next() is None: no future is left in the FuturesUnordered.
AllDone(fs) == \A i \in 1..Len(fs) : fs[i].st = "done"

\* admins up to its first futures.next().await: the for loop pushes one
\* future per location, each with its own clone of the service; next() of an
\* empty FuturesUnordered is None and admins returns Ok(results) at once.
Admins(locs) ==
    /\ fan_pc = "idle"
    /\ fan_locations' = locs
    /\ futures' = [i \in 1..Len(locs) |-> Future(Clone(service))]
    /\ results' = <<>>
    /\ IF AllDone(futures')
       THEN fan_pc' = "returned" /\ fan_ret' = Ok(results')
       ELSE fan_pc' = "polling" /\ UNCHANGED fan_ret
    /\ UNCHANGED <<service, walk_vars, call_vars, yielded, order, completions,
                   fan_requests, fan_panic>>

\* futures.next() polls future i for the first time: admin runs request up
\* to its send().await; the `?` of admin completes the future on an Err.
AdminRequest(i, built, client_ok) ==
    /\ fan_pc = "polling"
    /\ i \in 1..Len(futures)
    /\ Pollable(futures, i) /\ futures[i].st = "pushed"
    /\ LET r == Request(futures[i].self_clone,
                        AdminEndpoint(fan_locations[i].name), built, client_ok)
       IN  CASE r.kind = "sent" ->
                  /\ futures' = [futures EXCEPT ![i].st = "sending"]
                  /\ fan_requests' = Append(fan_requests, [idx |-> i, url |-> r.url])
                  /\ UNCHANGED <<fan_pc, yielded, completions, fan_panic>>
             [] r.kind = "Err" ->
                  /\ futures' = [futures EXCEPT ![i].st = "done", ![i].out = "Err"]
                  /\ yielded' = Some([idx |-> i, res |-> Err(r.msg)])
                  /\ completions' = Append(completions,
                                           Completion(i, None, Err(r.msg)))
                  /\ fan_pc' = "matching"
                  /\ UNCHANGED <<fan_requests, fan_panic>>
             [] OTHER ->
                  /\ futures' = DropAll(futures)
                  /\ fan_pc' = "panicked"
                  /\ fan_panic' = r.msg
                  /\ UNCHANGED <<fan_requests, yielded, completions>>
    /\ UNCHANGED <<service, walk_vars, call_vars, fan_locations, results, order, fan_ret>>

\* The send of future i completes and futures.next() polls it: the expect of
\* request panics on a failure; on a response request returns it and admin
\* goes on to response.json().await.
AdminSend(i, answered) ==
    /\ fan_pc = "polling"
    /\ i \in 1..Len(futures)
    /\ Pollable(futures, i) /\ futures[i].st = "sending"
    /\ IF answered
       THEN /\ futures' = [futures EXCEPT ![i].st = "reading"]
            /\ UNCHANGED <<fan_pc, fan_panic>>
       ELSE /\ futures' = DropAll(futures)
            /\ fan_pc' = "panicked"
            /\ fan_panic' = "Error with request"
    /\ UNCHANGED <<service, walk_vars, call_vars, fan_locations, yielded,
                   results, order, completions, fan_requests, fan_ret>>

\* The body of the response of future i arrives and futures.next() polls it:
\* admin completes, with the PageAdmins or with the Err of the `?`, and
\* next() resolves with its output.
AdminBody(i, body) ==
    /\ fan_pc = "polling"
    /\ i \in 1..Len(futures)
    /\ Pollable(futures, i) /\ futures[i].st = "reading"
    /\ LET resp == AdminsFromJson(body)
       IN  IF IsNone(resp)
           THEN /\ futures' = [futures EXCEPT ![i].st = "done", ![i].out = "Err"]
                /\ yielded' = Some([idx |-> i, res |-> Err("json")])
                /\ completions' = Append(completions,
                                         Completion(i, Some(body), Err("json")))
           ELSE /\ futures' = [futures EXCEPT ![i].st = "done", ![i].out = "Ok"]
                /\ yielded' = Some([idx |-> i,
                                    res |-> Ok(PageAdmins(fan_locations[i],
                                                          Unwrap(resp)))])
                /\ completions' =
                      Append(completions,
                             Completion(i, Some(body),
                                        Ok(PageAdmins(fan_locations[i],
                                                      Unwrap(resp)))))
    /\ fan_pc' = "matching"
    /\ UNCHANGED <<service, walk_vars, call_vars, fan_locations, results, order,
                   fan_requests, fan_ret, fan_panic>>

MatchErrCollects(result) == FALSE

MatchErrWaits(result) == result.kind = "Err" /\ AllDone(futures)

\* Err(e) => return Err(e), of the match on what next() resolved with
MatchReturnsErr(result) == result.kind = "Err"

\* The body of the while loop on what next() resolved with: push the Ok,
\* return the Err (dropping the FuturesUnordered); after a push, next() of a
\* FuturesUnordered with no future left is None and admins returns
\* Ok(results).
Match ==
    /\ fan_pc = "matching"
    /\ LET y == Unwrap(yielded)
       IN  IF MatchReturnsErr(y.res)
           THEN /\ fan_pc' = "returned"
                /\ fan_ret' = Err(y.res.error)
                /\ futures' = DropAll(futures)
                /\ UNCHANGED <<results, order>>
           ELSE /\ results' = Push(results, y.res.value)
                /\ order' = Append(order, y.idx)
                /\ UNCHANGED futures
                /\ IF AllDone(futures)
                   THEN fan_pc' = "returned" /\ fan_ret' = Ok(results')
                   ELSE fan_pc' = "polling" /\ UNCHANGED fan_ret
    /\ yielded' = None
    /\ UNCHANGED <<service, walk_vars, call_vars, fan_locations, completions,
                   fan_requests, fan_panic>>

NextFan ==
    \/ \E locs \in LocationLists : Admins(locs)
    \/ \E i \in 1..MaxLocations, built \in BOOLEAN, client_ok \in BOOLEAN :
          AdminRequest(i, built, client_ok)
    \/ \E i \in 1..MaxLocations, answered \in BOOLEAN : AdminSend(i, answered)
    \/ \E i \in 1..MaxLocations, body \in AdminBodies : AdminBody(i, body)
    \/ Match

SpecFan == Init /\ [][NextFan]_vars

\* The page walk under a runtime that keeps polling it and a transport that
\* always gets an answer or a failure back to it.
SpecWalkFair == Init /\ [][NextWalk]_vars /\ WF_vars(NextWalk)

----
\* The single-request operations: accounts over request, update_location
\* over update_request.

AccountsEndpoint == [kind |-> "accounts", id |-> "", mask |-> <<>>]

LocationEndpoint(name) == [kind |-> "location", id |-> name, mask |-> <<>>]

\* update_request up to its send().await: the URL gets the update mask
\* pushed, the request is a PATCH.
UpdateRequest(svc, endpoint, built, client_ok) ==
    IF ~built THEN Panic("could not build accounts url")
    ELSE IF ~client_ok THEN Failed("client build")
    ELSE IF ~HeaderValueFromStr(Bearer \o svc.access_token)
    THEN Panic("unwrap on Err: HeaderValue::from_str")
    ELSE Sent(EndPointBuild(endpoint) \o <<"?updateMask=title">>)

\* A body of the accounts endpoint: json is whether the bytes parse as JSON,
\* accounts what the object holds under "accounts".
AccountsBody(json, accounts) == [json |-> json, accounts |-> accounts]

\* What a server puts in an accounts array: account objects, or a value that
\* is no account.
AccountItems == { Obj("acc1"), Obj("acc2"), Num("7") }

RECURSIVE SeqsUpTo(_, _)
SeqsUpTo(S, n) ==
    IF n = 0 THEN { <<>> }
    ELSE LET shorter == SeqsUpTo(S, n - 1)
         IN  shorter \cup { Append(q, x) : q \in shorter, x \in S }

AccountBodies ==
    { AccountsBody(FALSE, None), AccountsBody(TRUE, None),
      AccountsBody(TRUE, Some(Null)) }
        \cup { AccountsBody(TRUE, Some(Arr(a))) :
                 a \in SeqsUpTo(AccountItems, MaxAccounts) }

\* response.json::<Accounts>(): Some(Accounts) when the body is an object
\* whose "accounts" is an array of Account objects, None (an Err) otherwise.
AccountsFromJson(body) ==
    IF ~body.json \/ IsNone(body.accounts) THEN None
    ELSE IF IsNone(AsArray(Unwrap(body.accounts))) THEN None
    ELSE LET arr == Unwrap(AsArray(Unwrap(body.accounts)))
         IN  IF \A i \in 1..Len(arr) : arr[i].t = "obj"
             THEN Some([accounts |-> [i \in 1..Len(arr) |-> arr[i].s]])
             ELSE None

NoAccountsNever(accounts) == FALSE

\* if accounts.accounts.len() == 0
NoAccounts(accounts) == Len(accounts.accounts) = 0

\* The bodies a server answers a PATCH of a location with: not JSON, a
\* location object, a value that is no location.
UpdateBodies ==
    { None, Some(Num("7")) } \cup { Some(Obj(l.name)) : l \in LocationUniverse }

\* accounts up to the send().await of request; the `?` returns its Err.
Accounts(built, client_ok) ==
    /\ call_pc = "idle"
    /\ call_op' = "accounts"
    /\ LET r == Request(service, AccountsEndpoint, built, client_ok)
       IN  CASE r.kind = "sent" ->
                  /\ call_pc' = "sending"
                  /\ call_url' = r.url
                  /\ UNCHANGED <<call_ret, call_panic>>
             [] r.kind = "Err" ->
                  /\ call_pc' = "returned"
                  /\ call_ret' = Err(r.msg)
                  /\ UNCHANGED <<call_url, call_panic>>
             [] OTHER ->
                  /\ call_pc' = "panicked"
                  /\ call_panic' = r.msg
                  /\ UNCHANGED <<call_url, call_ret>>
    /\ UNCHANGED <<service, walk_vars, fan_vars, call_served>>

\* update_location up to the send().await of update_request; the expect of
\* update_location panics on the Err of update_request.
UpdateLocation(location) ==
    /\ call_pc = "idle"
    /\ call_op' = "update_location"
    /\ \E built \in BOOLEAN, client_ok \in BOOLEAN :
          LET r == UpdateRequest(service, LocationEndpoint(location.name),
                                 built, client_ok)
          IN  CASE r.kind = "sent" ->
                     /\ call_pc' = "sending"
                     /\ call_url' = r.url
                     /\ UNCHANGED call_panic
                [] r.kind = "Err" ->
                     /\ call_pc' = "panicked"
                     /\ call_panic' = "Should update"
                     /\ UNCHANGED call_url
                [] OTHER ->
                     /\ call_pc' = "panicked"
                     /\ call_panic' = r.msg
                     /\ UNCHANGED call_url
    /\ UNCHANGED <<service, walk_vars, fan_vars, call_served, call_ret>>

\* The send completes: the expect of request or update_request panics on a
\* failure.
CallSend(answered) ==
    /\ call_pc = "sending"
    /\ IF answered
       THEN call_pc' = "reading" /\ UNCHANGED call_panic
       ELSE /\ call_pc' = "panicked"
            /\ call_panic' = IF call_op = "accounts" THEN "Error with request"
                             ELSE "Error with patch request"
    /\ UNCHANGED <<service, walk_vars, fan_vars, call_op, call_url,
                   call_served, call_ret>>

\* The body of the accounts response arrives: the `?` returns the Err of
\* json(), an empty accounts vector is an Err, anything else is returned.
AccountsRead(body) ==
    /\ call_pc = "reading" /\ call_op = "accounts"
    /\ call_served' = Some(body)
    /\ call_pc' = "returned"
    /\ LET accounts == AccountsFromJson(body)
       IN  IF IsNone(accounts) THEN call_ret' = Err("json")
           ELSE IF NoAccounts(Unwrap(accounts))
           THEN call_ret' = Err("no accounts, something went wrong!")
           ELSE call_ret' = Ok(Unwrap(accounts))
    /\ UNCHANGED <<service, walk_vars, fan_vars, call_op, call_url, call_panic>>

\* The body of the PATCH response arrives: the `?` returns the Err of
\* json::<Location>(), a location is printed and dropped.
UpdateRead(body) ==
    /\ call_pc = "reading" /\ call_op = "update_location"
    /\ call_served' = Some(body)
    /\ call_pc' = "returned"
    /\ IF IsNone(body) THEN call_ret' = Err("json")
       ELSE IF IsNone(FromValue(Unwrap(body))) THEN call_ret' = Err("json")
       ELSE call_ret' = Ok(<<>>)
    /\ UNCHANGED <<service, walk_vars, fan_vars, call_op, call_url, call_panic>>

----
\* The service as a caller uses it. Every operation borrows the service
\* mutably, so a caller starts one only when no other is running; an
\* operation that has ended leaves nothing behind but the service.

NoneRunning ==
    /\ walk_pc = "idle"
    /\ fan_pc = "idle"
    /\ call_pc = "idle"

Ended(pc) == pc \in {"returned", "panicked"}

\* The caller has taken the outcome of the operation that ended; its locals
\* are gone.
Release ==
    /\ Ended(walk_pc) \/ Ended(fan_pc) \/ Ended(call_pc)
    /\ walk_pc' = "idle"
    /\ walk_op' = [name |-> "none", account_id |-> "", read_mask_joined |-> <<>>]
    /\ locations' = <<>>
    /\ next_page_token' = None
    /\ walk_url' = <<>>
    /\ requests' = <<>>
    /\ served' = <<>>
    /\ walk_ret' = NoRet
    /\ walk_panic' = ""
    /\ fan_pc' = "idle"
    /\ fan_locations' = <<>>
    /\ futures' = <<>>
    /\ yielded' = None
    /\ results' = <<>>
    /\ order' = <<>>
    /\ completions' = <<>>
    /\ fan_requests' = <<>>
    /\ fan_ret' = NoRet
    /\ fan_panic' = ""
    /\ call_pc' = "idle"
    /\ call_op' = "none"
    /\ call_url' = <<>>
    /\ call_served' = None
    /\ call_ret' = NoRet
    /\ call_panic' = ""
    /\ UNCHANGED service

Next ==
    \/ NoneRunning /\ \E a \in AccountIds : GetLocations(a)
    \/ NoneRunning /\ \E a \in AccountIds, m \in ReadMasks :
          GetLocationsDetails(a, m)
    \/ \E built \in BOOLEAN, client_ok \in BOOLEAN : WalkRequest(built, client_ok)
    \/ \E answered \in BOOLEAN : WalkSend(answered)
    \/ \E body \in Bodies : WalkBody(body)
    \/ NoneRunning /\ \E locs \in LocationLists : Admins(locs)
    \/ \E i \in 1..MaxLocations, built \in BOOLEAN, client_ok \in BOOLEAN :
          AdminRequest(i, built, client_ok)
    \/ \E i \in 1..MaxLocations, answered \in BOOLEAN : AdminSend(i, answered)
    \/ \E i \in 1..MaxLocations, body \in AdminBodies : AdminBody(i, body)
    \/ Match
    \/ NoneRunning /\ \E built \in BOOLEAN, client_ok \in BOOLEAN :
          Accounts(built, client_ok)
    \/ NoneRunning /\ \E l \in LocationUniverse : UpdateLocation(l)
    \/ \E answered \in BOOLEAN : CallSend(answered)
    \/ \E body \in AccountBodies : AccountsRead(body)
    \/ \E body \in UpdateBodies : UpdateRead(body)
    \/ Release

Spec == Init /\ [][Next]_vars

----
\* Vocabulary of the page-walk properties.

WalkTerminal == walk_pc \in {"returned", "panicked"}

\* The body is JSON and has no "nextPageToken" key.
TokenOmitted(b) == b.json /\ Len(b.nextPageToken) = 0

\* The body is JSON and carries a string under "nextPageToken".
CarriesToken(b) ==
    IF b.json /\ Len(b.nextPageToken) = 1 THEN b.nextPageToken[1].t = "str"
    ELSE FALSE

\* The body is JSON and has no "locations" key.
ItemsMissing(b) == b.json /\ Len(b.locations) = 0

\* The body carries an array of location objects under "locations".
CarriesItems(b) ==
    IF b.json /\ Len(b.locations) = 1
    THEN /\ b.locations[1].t = "arr"
         /\ \A i \in 1..Len(b.locations[1].a) : b.locations[1].a[i].t = "obj"
    ELSE FALSE

\* The locations a page's items name, in the page's order.
ItemsOf(b) ==
    [i \in 1..Len(b.locations[1].a) |->
        CHOOSE l \in LocationUniverse : l.name = b.locations[1].a[i].s]

RECURSIVE ConcatItems(_)
ConcatItems(bodies) ==
    IF bodies = <<>> THEN <<>>
    ELSE ItemsOf(Head(bodies)) \o ConcatItems(Tail(bodies))

\* N >= 1 pages with items, each but the last with a token, the last without.
TokenChain(bodies) ==
    /\ Len(bodies) >= 1
    /\ \A i \in 1..Len(bodies) : CarriesItems(bodies[i])
    /\ \A i \in 1..(Len(bodies) - 1) : CarriesToken(bodies[i])
    /\ TokenOmitted(bodies[Len(bodies)])

UrlContains(url, key, value) ==
    \E i \in 1..(Len(url) - 1) : url[i] = key /\ url[i + 1] = value

----
\* C1: once the server has answered with a token chain of N pages, the walk
\* has returned Ok with exactly the concatenation of the N pages' items in
\* page order and has sent exactly N requests; and the walk returns Ok only
\* at the end of such a chain, so no page of it is dropped.
C1_WalkConcatenatesChain ==
    /\ TokenChain(served) =>
          /\ walk_pc = "returned"
          /\ walk_ret = Ok(ConcatItems(served))
          /\ Len(requests) = Len(served)
    /\ walk_ret.kind = "Ok" => TokenChain(served)

C1_Witness ==
    /\ Len(served) = 3
    /\ TokenChain(served)
    /\ walk_ret.kind = "Ok"
    /\ Len(walk_ret.value) = 5

\* C2: a body with items that omits the token ends the walk with Ok of the
\* accumulated items; an omitted token never yields an Err and never a
\* further request; and the walk eventually ends.
C2_OmittedTokenEnds ==
    (served # <<>> /\ TokenOmitted(served[Len(served)])) =>
        /\ WalkTerminal
        /\ walk_ret.kind # "Err"
        /\ Len(requests) = Len(served)
        /\ CarriesItems(served[Len(served)]) =>
              (walk_pc = "returned" /\ walk_ret = Ok(locations))

C2_WalkTerminates == []C2_OmittedTokenEnds /\ <>WalkTerminal

C2_Witness ==
    /\ Len(served) = 2
    /\ TokenOmitted(served[2])
    /\ walk_ret.kind = "Ok"
    /\ Len(walk_ret.value) = 3

\* C3: after the chain [{[a,b], "t1"}, {[c], null}] the walk has returned
\* [a,b,c] with 2 requests sent, the second with pageToken=t1.
ScenarioChain ==
    << Body(TRUE, Some(Arr(<<Obj("a"), Obj("b")>>)), Some(Str("t1"))),
       Body(TRUE, Some(Arr(<<Obj("c")>>)), Some(Null)) >>

C3_NullTokenEndsWalk ==
    served = ScenarioChain =>
        /\ walk_pc = "returned"
        /\ walk_ret = Ok(ConcatItems(ScenarioChain))
        /\ Len(requests) = 2
        /\ UrlContains(requests[2], "&pageToken=", "t1")

\* C4: a first page that omits the token is the whole result after exactly
\* one request, an empty page included.
C4_SinglePage ==
    (Len(served) = 1 /\ TokenOmitted(served[1]) /\ CarriesItems(served[1])) =>
        /\ walk_pc = "returned"
        /\ walk_ret = Ok(ItemsOf(served[1]))
        /\ Len(requests) = 1

C4_Witness ==
    /\ served = <<Body(TRUE, Some(Arr(<<>>)), None)>>
    /\ walk_ret = Ok(<<>>)
    /\ Len(requests) = 1

\* C5: a page without the items field makes the walk return an error value.
C5_MissingItemsReturnsErr ==
    (served # <<>> /\ ItemsMissing(served[Len(served)])) =>
        (walk_pc = "returned" /\ walk_ret.kind = "Err")

\* C6: a transport failure on a page request (the request cannot be built or
\* cannot be sent) makes the walk return that error to its caller.
TransportFailed ==
    \/ walk_panic = "Error with request"
    \/ walk_panic = "unwrap on Err: HeaderValue::from_str"
    \/ walk_ret.error = "client build"

C6_TransportErrorReturned ==
    TransportFailed => (walk_pc = "returned" /\ walk_ret.kind = "Err")

----
\* Vocabulary of the fan-out properties.

FanEnded == fan_pc \in {"returned", "panicked"}

\* order lists each of 1..k exactly once.
IsPermutation(ord, k) ==
    /\ Len(ord) = k
    /\ \A n \in 1..k : \E j \in 1..k : ord[j] = n

\* The result at position j is the one of the location order[j].
ResultOfLocation(res, loc) ==
    /\ res.page_name = loc.name
    /\ res.page_title = loc.title
    /\ res.store_code = loc.store_code

\* Future i can take a step: be polled for the first time, or have its send
\* or its body complete.
FutureCanRun(i) ==
    \/ ENABLED (\E built \in BOOLEAN, client_ok \in BOOLEAN :
                   AdminRequest(i, built, client_ok))
    \/ ENABLED (\E answered \in BOOLEAN : AdminSend(i, answered))
    \/ ENABLED (\E body \in AdminBodies : AdminBody(i, body))

\* admins has returned the Err of a future while others had not completed.
ReturnedEarly ==
    /\ fan_pc = "returned"
    /\ fan_ret.kind = "Err"
    /\ \E i \in 1..Len(futures) : futures[i].st # "done"

----
\* C7: when every sub-query has succeeded, admins returns Ok with exactly K
\* results, one per location (position j holds the result of the location
\* that completed j-th, and the completion order is a permutation of the
\* locations), whatever the completion order.
C7_AllSucceedReturnsAll ==
    /\ (fan_pc # "matching" /\ Len(futures) > 0
            /\ \A i \in 1..Len(futures) : futures[i].out = "Ok") =>
          (fan_pc = "returned" /\ fan_ret.kind = "Ok")
    /\ fan_ret.kind = "Ok" =>
          /\ Len(fan_ret.value) = Len(fan_locations)
          /\ IsPermutation(order, Len(fan_locations))
          /\ \A j \in 1..Len(fan_ret.value) :
                ResultOfLocation(fan_ret.value[j], fan_locations[order[j]])

C7_Witness ==
    /\ fan_ret.kind = "Ok"
    /\ Len(fan_locations) = MaxLocations
    /\ order[1] = MaxLocations
    /\ order[MaxLocations] = 1

FailureYielded ==
    IF fan_pc = "matching" THEN yielded[1].res.kind = "Err" ELSE FALSE

C9_ReturnStep ==
    FailureYielded =>
        /\ fan_pc' = "returned"
        /\ fan_ret' = Err(yielded[1].res.error)
        /\ results' = results

C9_ReturnsOnFirstFailure ==
    /\ [](FailureYielded => ENABLED Match)
    /\ [][C9_ReturnStep]_vars

C9_Witness ==
    /\ ReturnedEarly
    /\ \E j \in 1..Len(futures) : futures[j].st = "sending"
    /\ \E j \in 1..Len(futures) : futures[j].st = "pushed"

\* C10, as first stated: after admins has returned early, the sub-queries
\* that had not completed can still run.
C10_InFlightSurviveReturn ==
    ReturnedEarly =>
        \A i \in 1..Len(futures) : futures[i].st # "done" => FutureCanRun(i)

\* C10, amended: when admins returns early, the sub-queries that had not
\* completed are dropped with the FuturesUnordered that owns them: none can
\* take a further step, and none has an outcome.
C10_InFlightDroppedOnReturn ==
    ReturnedEarly =>
        \A i \in 1..Len(futures) :
            futures[i].st # "done" =>
                /\ futures[i].dropped
                /\ ~FutureCanRun(i)
                /\ futures[i].out = "none"

C10_Witness ==
    /\ ReturnedEarly
    /\ \E j \in 1..Len(futures) : futures[j].st = "reading" /\ futures[j].dropped

----
\* The accounts listing.

EmptyAccountsBody == AccountsBody(TRUE, Some(Arr(<<>>)))

AccountsReturned == call_op = "accounts" /\ call_pc = "returned"

\* C11: when the accounts array of the response has length zero the accounts
\* listing returns the "no accounts" error, never a success with an empty
\* list; every success of the listing carries at least one account.
C11_EmptyAccountsIsError ==
    AccountsReturned =>
        /\ call_ret.kind = "Ok" => Len(call_ret.value.accounts) >= 1
        /\ call_served = Some(EmptyAccountsBody) =>
              /\ call_ret.kind = "Err"
              /\ call_ret.error = "no accounts, something went wrong!"

C11_Witness ==
    /\ AccountsReturned
    /\ call_served = Some(EmptyAccountsBody)
    /\ call_ret.kind = "Err"

----
\* The order of the requests of one page walk.

\* The page requests that were sent and have no response yet.
Outstanding == Len(requests) - Len(served)

\* The walk is suspended on a request, or the failure of one unwound it.
AwaitsResponse ==
    \/ walk_pc \in {"sending", "reading"}
    \/ walk_pc = "panicked" /\ walk_panic = "Error with request"

LastToken ==
    IF served = <<>> THEN None ELSE Get(served[Len(served)], "nextPageToken")

C12_AtMostOneOutstanding ==
    /\ Outstanding \in {0, 1}
    /\ Outstanding = 1 <=> AwaitsResponse

\* A step that sends a page request: every earlier request has its response,
\* the items of all of them are in the accumulator and the token in hand is
\* the one read from the last of them.
C12_IssueStep ==
    Len(requests') > Len(requests) =>
        /\ Len(requests') = Len(requests) + 1
        /\ Len(served) = Len(requests)
        /\ locations = ConcatItems(served)
        /\ next_page_token = LastToken

\* C12: the requests of a page walk are strictly sequential: at most one is
\* outstanding at any time, and the request for page N+1 is sent only after
\* the response of page N was received, its items appended and its token
\* read.
C12_StrictlySequential == []C12_AtMostOneOutstanding /\ [][C12_IssueStep]_vars

C12_Witness ==
    /\ walk_pc = "sending"
    /\ Len(requests) = 3
    /\ Len(served) = 2
    /\ Len(locations) = 3
    /\ Outstanding = 1

----
\* Retries and the propagation of failures.

\* The response at position k cannot be used: it is not JSON, or its items
\* cannot be deserialised.
Unusable(b) == IF b.json THEN ~Deserialises(b) ELSE TRUE

WalkFailed ==
    \/ walk_panic # ""
    \/ walk_ret.kind = "Err"
    \/ \E k \in 1..Len(served) : Unusable(served[k])

FanFailed ==
    \/ fan_panic # ""
    \/ \E k \in 1..Len(completions) : completions[k].res.kind = "Err"

\* Each response's token serves at most one request, an unusable response is
\* the last one and has no request after it, and no location has two
\* requests.
C13_NoRetryState ==
    /\ Len(requests) <= Len(served) + 1
    /\ \A k \in 1..Len(served) :
          Unusable(served[k]) => (k = Len(served) /\ Len(requests) = k)
    /\ \A m, n \in 1..Len(fan_requests) :
          fan_requests[m].idx = fan_requests[n].idx => m = n

\* No request is sent once the operation has failed.
C13_NoRetryStep ==
    /\ WalkFailed => Len(requests') <= Len(requests)
    /\ FanFailed => Len(fan_requests') <= Len(fan_requests)

\* The failure of an operation that has ended is its Err outcome.
C13_FailureIsOutcome ==
    /\ (Ended(walk_pc) /\ WalkFailed) => walk_ret.kind = "Err"
    /\ (Ended(fan_pc) /\ FanFailed) => fan_ret.kind = "Err"

\* C13: no operation retries (in a page walk each continuation token is used
\* for at most one request and no request follows a failure, in a fan-out
\* each location gets at most one request), and every failure is handed to
\* the caller as the outcome of the operation.
C13_NoRetryFailuresPropagate ==
    /\ [](C13_NoRetryState /\ C13_FailureIsOutcome)
    /\ [][C13_NoRetryStep]_vars

\* The part of C13 about retries alone.
C13_NoRetry == []C13_NoRetryState /\ [][C13_NoRetryStep]_vars

----
\* The pageToken parameter of the page requests.

\* The number of pageToken parameters of a URL.
PageTokenParams(url) == Cardinality({ i \in 1..Len(url) : url[i] = "&pageToken=" })

\* The string a response carries under "nextPageToken".
TokenOf(b) == b.nextPageToken[1].s

\* C14: the first request of a page walk carries no pageToken parameter, and
\* every later request carries exactly one, whose value is the token of the
\* response immediately before it: not the token of an earlier page, and not
\* one that an earlier request has carried for another response.
C14_TokenOfPrecedingResponse ==
    \A k \in 1..Len(requests) :
        IF k = 1
        THEN /\ PageTokenParams(requests[1]) = 0
             /\ requests[1] = EndPointBuild(WalkEndpoint)
        ELSE /\ Len(served) >= k - 1
             /\ CarriesToken(served[k - 1])
             /\ PageTokenParams(requests[k]) = 1
             /\ requests[k] = EndPointBuild(WalkEndpoint)
                                \o <<"&pageToken=", TokenOf(served[k - 1])>>

C14_Witness ==
    /\ Len(requests) = 3
    /\ Len(served) = 2
    /\ TokenOf(served[1]) = "t1"
    /\ TokenOf(served[2]) = "t2"
    /\ UrlContains(requests[2], "&pageToken=", "t1")
    /\ UrlContains(requests[3], "&pageToken=", "t2")
    /\ ~UrlContains(requests[3], "&pageToken=", "t1")

----
\* The overlap of the sub-queries of a fan-out.

InFlight(i) == futures[i].st \in {"sending", "reading"}

\* C15: the sub-queries of a fan-out overlap. While admins waits in
\* futures.next(), every sub-query that has not completed can take its next
\* step (send its request, get its response, complete) whatever the others
\* are doing, so one that never completes holds no other back and all of
\* them can be in flight together.
C15_SubQueriesOverlap ==
    fan_pc = "polling" =>
        \A i \in 1..Len(futures) : futures[i].st # "done" => FutureCanRun(i)

C15_Witness ==
    /\ fan_pc = "polling"
    /\ Len(futures) = 3
    /\ \A i \in 1..3 : InFlight(i) /\ FutureCanRun(i)
    /\ fan_requests[1].idx = 3
    /\ results = <<>>

----
\* The order of the outcomes of a fan-out.

\* The values of the completions, and the indices of their futures, in
\* completion order.
CompletedValues == [k \in 1..Len(completions) |-> completions[k].res.value]

CompletedIndices == [k \in 1..Len(completions) |-> completions[k].idx]

\* The position in completion order of the first sub-query that failed.
FirstFailure ==
    CHOOSE k \in 1..Len(completions) :
        /\ completions[k].res.kind = "Err"
        /\ \A j \in 1..(k - 1) : completions[j].res.kind = "Ok"

\* C16: the Err admins returns is the error of the sub-query that failed
\* first in completion order, and the Ok it returns lists the results in
\* completion order, which need not be the order of the locations.
C16_CompletionOrderDecides ==
    fan_pc = "returned" =>
        IF fan_ret.kind = "Err"
        THEN /\ \E k \in 1..Len(completions) : completions[k].res.kind = "Err"
             /\ fan_ret.error = completions[FirstFailure].res.error
        ELSE /\ fan_ret.value = CompletedValues
             /\ order = CompletedIndices

C16_Witness ==
    /\ fan_pc = "returned"
    /\ fan_ret.kind = "Ok"
    /\ Len(fan_ret.value) = 3
    /\ CompletedIndices = <<3, 1, 2>>
    /\ fan_ret.value[1].page_name = "c"
    /\ fan_ret.value[2].page_name = "a"

----
\* The content of the results of a fan-out.

\* The length of the admins array of the body a completion parsed.
AdminsInBody(c) == Len(c.body[1].admins[1].a)

\* The completion is the result of its own sub-query: the fields of the
\* location the sub-query was made for, the count of the admins of the
\* response the sub-query received.
OwnResult(c) ==
    /\ ResultOfLocation(c.res.value, fan_locations[c.idx])
    /\ c.res.value.admin_count = AdminsInBody(c)

\* C17: every successful result of a fan-out carries the page_name,
\* page_title and store_code of the location of its own sub-query and, as
\* admin_count, the length of the admins array of its own response; the
\* results collected are these, one per success.
C17_ResultsCarryOwnFields ==
    /\ \A k \in 1..Len(completions) :
          completions[k].res.kind = "Ok" => OwnResult(completions[k])
    /\ Len(results) <= Len(completions)
    /\ \A j \in 1..Len(results) : results[j] = completions[j].res.value

C17_Witness ==
    /\ fan_pc = "returned"
    /\ fan_ret.kind = "Ok"
    /\ Len(fan_ret.value) = 2
    /\ fan_ret.value[1].page_name = "b"
    /\ fan_ret.value[1].store_code = "S2"
    /\ fan_ret.value[1].admin_count = 0
    /\ fan_ret.value[2].page_name = "a"
    /\ fan_ret.value[2].page_title = "A"
    /\ fan_ret.value[2].admin_count = 2

----
\* The state of the service.

\* Every sub-query works on a copy of the service that equals the service.
ClonesEqualService ==
    \A i \in 1..Len(futures) : futures[i].self_clone = service

\* A step leaves the credential and the account id as they were, in the
\* service and in the copy of every sub-query that is still there.
ServiceKept ==
    /\ service' = service
    /\ \A i \in 1..Len(futures) :
          i \in 1..Len(futures') => futures'[i].self_clone = futures[i].self_clone

\* C18: the operations share no mutable state. Each sub-query of a fan-out
\* has its own copy of the service, and no step of any operation (a request,
\* a page walk, a fan-out, an update) changes the credential or the account
\* id, so after any sequence of operations the service is as constructed.
C18_ServiceNeverChanges == []ClonesEqualService /\ [][ServiceKept]_vars

C18_Witness ==
    /\ fan_pc = "returned"
    /\ fan_ret.kind = "Ok"
    /\ Len(futures) = 3
    /\ ClonesEqualService
    /\ service = New(<<116, 111, 107>>)

----
\* The fan-out over no location.

CalledWithNoLocation == fan_pc # "idle" /\ fan_locations = <<>>

\* C19: admins called with an empty list of locations sends no request and
\* returns Ok with an empty list of results.
C19_EmptyListReturnsEmpty ==
    CalledWithNoLocation =>
        /\ fan_pc = "returned"
        /\ fan_ret.kind = "Ok"
        /\ fan_ret.value = <<>>
        /\ fan_requests = <<>>
        /\ futures = <<>>

C19_Witness ==
    /\ CalledWithNoLocation
    /\ fan_pc = "returned"
    /\ fan_ret.kind = "Ok"
    /\ Len(fan_ret.value) = 0
    /\ Len(fan_requests) = 0


====
